---------------------------- MODULE Spec2Model ----------------------------
(***************************************************************************)
(* SplitBotAI: the group-expense calculator and its entry points.          *)
(*                                                                         *)
(*   src/src/calculator/gpt_expense_calculator.py         the calculator   *)
(*   src/src/python/calculator/gpt_expense_calculator.py  the singleton    *)
(*                                                        calculator       *)
(*   src/api/index.py                                     HTTP handler     *)
(*   src/src/python/api/index.py                          command line     *)
(*                                                                         *)
(* Python values are modelled with their type: a value is a record         *)
(* [t |-> "str" | "int" | "list" | "dict", v |-> ...].  Strings that are   *)
(* parsed (amounts) are sequences of characters.  decimal.Decimal is       *)
(* modelled digit by digit (sign, coefficient, exponent) with the          *)
(* context precision of 28 digits, and float as an IEEE binary64 value     *)
(* (sign, 53-bit mantissa, exponent), both on sequences of small           *)
(* integers.                                                               *)
(***************************************************************************)
EXTENDS Integers, Sequences, FiniteSets

(***************************************************************************)
(* Natural numbers as sequences of digits in a base, most significant      *)
(* first: base 10 for the coefficient of a Decimal, base 2^15 for the      *)
(* mantissa of a float.  Every intermediate value stays below 2^31.        *)
(***************************************************************************)
Zeros(n) == [i \in 1..n |-> 0]

\* The first position from i on that holds a non-zero digit, 0 if none does.
FirstNonZero(ds, i) ==
    IF \E k \in i..Len(ds) : ds[k] # 0
    THEN CHOOSE k \in i..Len(ds) : ds[k] # 0 /\ \A j \in i..(k - 1) : ds[j] = 0
    ELSE 0

\* The digits without leading zeros; zero is <<0>> (Python's _int '0').
StripZeros(ds) ==
    IF FirstNonZero(ds, 1) = 0 THEN <<0>> ELSE SubSeq(ds, FirstNonZero(ds, 1), Len(ds))

IsZeroDigits(ds) == FirstNonZero(ds, 1) = 0

PadLeft(ds, n) == IF Len(ds) >= n THEN ds ELSE Zeros(n - Len(ds)) \o ds

MaxInt(a, b) == IF a > b THEN a ELSE b

MinInt(a, b) == IF a < b THEN a ELSE b

\* The first position where a and b, of the same length, differ.
FirstDiff(a, b) ==
    CHOOSE i \in 1..Len(a) : a[i] # b[i] /\ \A j \in 1..(i - 1) : a[j] = b[j]

\* Comparison of two numbers of the same length, digit by digit.
CmpPadded(a, b) ==
    IF a = b THEN 0
    ELSE IF a[FirstDiff(a, b)] < b[FirstDiff(a, b)] THEN -1 ELSE 1

\* -1, 0, 1 as a < b, a = b, a > b (as numbers).
CmpMag(a, b) ==
    CmpPadded(PadLeft(a, MaxInt(Len(a), Len(b))), PadLeft(b, MaxInt(Len(a), Len(b))))

(***************************************************************************)
(* Schoolbook arithmetic.  In a sum the carry into a position is 1 when,   *)
(* to its right, a position overflows and every position between is full;  *)
(* likewise the borrow of a difference.                                     *)
(***************************************************************************)
CarryInto(a, b, i, base) ==
    \E j \in (i + 1)..Len(a) :
        /\ a[j] + b[j] >= base
        /\ \A k \in (i + 1)..(j - 1) : a[k] + b[k] = base - 1

AddPadded(a, b, base) ==
    <<IF CarryInto(a, b, 0, base) THEN 1 ELSE 0>>
    \o [i \in 1..Len(a) |->
          (a[i] + b[i] + (IF CarryInto(a, b, i, base) THEN 1 ELSE 0)) % base]

NatAdd(a, b, base) ==
    StripZeros(AddPadded(PadLeft(a, MaxInt(Len(a), Len(b))),
                         PadLeft(b, MaxInt(Len(a), Len(b))), base))

BorrowInto(a, b, i) ==
    \E j \in (i + 1)..Len(a) :
        /\ a[j] < b[j]
        /\ \A k \in (i + 1)..(j - 1) : a[k] = b[k]

SubPadded(a, b, base) ==
    [i \in 1..Len(a) |->
        (a[i] - b[i] - (IF BorrowInto(a, b, i) THEN 1 ELSE 0) + base) % base]

\* a - b for a >= b.
NatSub(a, b, base) ==
    StripZeros(SubPadded(PadLeft(a, MaxInt(Len(a), Len(b))),
                         PadLeft(b, MaxInt(Len(a), Len(b))), base))

\* a * m + carry for small m, from position i down.
RECURSIVE MulFrom(_, _, _, _, _)
MulFrom(a, m, i, carry, base) ==
    IF i = 0 THEN <<carry>>
    ELSE Append(MulFrom(a, m, i - 1, (a[i] * m + carry) \div base, base),
                (a[i] * m + carry) % base)

NatMulAdd(a, m, c, base) == StripZeros(MulFrom(a, m, Len(a), c, base))

\* Long division of ds by the small number n from position i on, rem
\* carried in: <<quotient digits, remainder>>.
RECURSIVE DivFrom(_, _, _, _, _)
DivFrom(ds, n, i, rem, base) ==
    IF i > Len(ds) THEN <<<<>>, rem>>
    ELSE LET rest == DivFrom(ds, n, i + 1, (rem * base + ds[i]) % n, base)
         IN  <<<<(rem * base + ds[i]) \div n>> \o rest[1], rest[2]>>

\* <<ds \div n, ds % n>>, digit for digit.
NatDivSmall(ds, n, base) == DivFrom(ds, n, 1, 0, base)

\* Decimal digits six at a time, for the division of a long coefficient.
Chunk == 10^6

ChunksOf(ds) ==
    [c \in 1..(Len(ds) \div 6) |->
        ds[6 * c - 5] * 100000 + ds[6 * c - 4] * 10000 + ds[6 * c - 3] * 1000
        + ds[6 * c - 2] * 100 + ds[6 * c - 1] * 10 + ds[6 * c]]

DigitsOfChunks(cs) ==
    [i \in 1..(6 * Len(cs)) |-> (cs[(i + 5) \div 6] \div 10^(5 - ((i - 1) % 6))) % 10]

DivChunks(r) == <<StripZeros(DigitsOfChunks(r[1])), r[2]>>

\* <<ds \div n, ds % n>> for decimal digits ds and n < 2000.
DivSmall(ds, n) ==
    DivChunks(NatDivSmall(ChunksOf(PadLeft(ds, 6 * ((Len(ds) + 5) \div 6))), n, Chunk))

RECURSIVE DigitsOfNat(_)
DigitsOfNat(n) == IF n < 10 THEN <<n>> ELSE Append(DigitsOfNat(n \div 10), n % 10)

(***************************************************************************)
(* decimal.Decimal.  A finite value is (-1)^sign * digits * 10^exp, with   *)
(* the coefficient kept as parsed (trailing zeros are not dropped); the    *)
(* special values are NaN and Infinity.  Arithmetic results are rounded to *)
(* the context precision with the context rounding ROUND_HALF_EVEN, as     *)
(* Decimal._fix does.                                                      *)
(***************************************************************************)
Prec == 28

Dec(sign, digits, exp) ==
    [kind |-> "finite", sign |-> sign, digits |-> digits, exp |-> exp]

\* Decimal(): the value a defaultdict(Decimal) gives a new key.
DecZero == Dec(0, <<0>>, 0)

\* The coefficient of d written at the exponent e <= d.exp.
ScaledDigits(d, e) == d.digits \o Zeros(d.exp - e)

\* Comparison of (-1)^sa * ma and (-1)^sb * mb: -1, 0 or 1.
CmpSigned(sa, ma, sb, mb) ==
    IF IsZeroDigits(ma) /\ IsZeroDigits(mb) THEN 0
    ELSE IF IsZeroDigits(ma) THEN (IF sb = 1 THEN 1 ELSE -1)
    ELSE IF IsZeroDigits(mb) THEN (IF sa = 1 THEN -1 ELSE 1)
    ELSE IF sa # sb THEN (IF sa = 1 THEN -1 ELSE 1)
    ELSE IF sa = 0 THEN CmpMag(ma, mb)
    ELSE -CmpMag(ma, mb)

\* Comparison of two finite values: -1, 0 or 1.
DecCmp(a, b) ==
    CmpSigned(a.sign, ScaledDigits(a, MinInt(a.exp, b.exp)),
              b.sign, ScaledDigits(b, MinInt(a.exp, b.exp)))

\* Whether the digits of ds after position k are more than (1), exactly (0)
\* or less than (-1) half a unit of position k.
HalfCmp(ds, k) ==
    IF ds[k + 1] > 5 THEN 1
    ELSE IF ds[k + 1] < 5 THEN -1
    ELSE IF FirstNonZero(ds, k + 2) = 0 THEN 0 ELSE 1

\* The first Prec digits of ds, rounded by what follows them, ties to even.
RoundedCoeff(ds, h) ==
    IF h = 1 \/ (h = 0 /\ ds[Prec] % 2 = 1)
    THEN NatAdd(SubSeq(ds, 1, Prec), <<1>>, 10)
    ELSE SubSeq(ds, 1, Prec)

\* A coefficient that rounding carried to Prec + 1 digits loses its last 0.
FixCarry(sign, c, exp) ==
    IF Len(c) > Prec THEN Dec(sign, SubSeq(c, 1, Prec), exp + 1)
    ELSE Dec(sign, c, exp)

\* Decimal._fix: a coefficient of more than Prec digits is rounded to Prec
\* digits, ties to the even digit.
DecFix(d) ==
    IF Len(d.digits) <= Prec THEN d
    ELSE FixCarry(d.sign, RoundedCoeff(d.digits, HalfCmp(d.digits, Prec)),
                  d.exp + Len(d.digits) - Prec)

\* The sum of (-1)^sa * ma and (-1)^sb * mb, c comparing ma with mb.
SumSigned(sa, ma, sb, mb, c, e) ==
    IF sa = sb THEN Dec(sa, NatAdd(ma, mb, 10), e)
    ELSE IF c = 0 THEN Dec(0, <<0>>, e)
    ELSE IF c > 0 THEN Dec(sa, NatSub(ma, mb, 10), e)
    ELSE Dec(sb, NatSub(mb, ma, 10), e)

AddAligned(sa, ma, sb, mb, e) ==
    DecFix(SumSigned(sa, ma, sb, mb, CmpMag(ma, mb), e))

\* Decimal.__add__ of two finite values.
DecAdd(a, b) ==
    AddAligned(a.sign, ScaledDigits(a, MinInt(a.exp, b.exp)),
               b.sign, ScaledDigits(b, MinInt(a.exp, b.exp)),
               MinInt(a.exp, b.exp))

DecNeg(a) == [a EXCEPT !.sign = 1 - a.sign]

\* Decimal.__sub__: self + (-other).
DecSub(a, b) == DecAdd(a, DecNeg(b))

\* The number of zeros that end ds, a number that is not zero.
TrailingZeros(ds) ==
    Len(ds) - (CHOOSE k \in 1..Len(ds) : ds[k] # 0 /\ \A j \in (k + 1)..Len(ds) : ds[j] = 0)

\* An exact quotient is brought towards the ideal exponent by dropping
\* trailing zeros of its coefficient.
Dropped(sign, q, exp, k) ==
    IF IsZeroDigits(q) THEN Dec(sign, <<0>>, exp + k)
    ELSE Dec(sign, SubSeq(q, 1, Len(q) - k), exp + k)

\* An inexact quotient is made sticky: a last digit 0 or 5 becomes 1 or 6.
Sticky(q) == IF q[Len(q)] % 5 = 0 THEN NatAdd(q, <<1>>, 10) ELSE q

Quotient(a, shift, qr, lost) ==
    IF qr[2] # 0 \/ lost THEN Dec(a.sign, Sticky(qr[1]), a.exp - shift)
    ELSE Dropped(a.sign, qr[1], a.exp - shift,
                 IF IsZeroDigits(qr[1]) THEN MaxInt(shift, 0)
                 ELSE MinInt(MaxInt(shift, 0), TrailingZeros(qr[1])))

\* The coefficient times 10^shift, whole part (shift may be negative).
ShiftedCoeff(ds, shift) ==
    IF shift >= 0 THEN ds \o Zeros(shift)
    ELSE IF Len(ds) + shift >= 1 THEN SubSeq(ds, 1, Len(ds) + shift)
    ELSE <<0>>

DivShifted(a, n, shift) ==
    DecFix(Quotient(a, shift, DivSmall(ShiftedCoeff(a.digits, shift), n),
                    shift < 0 /\ FirstNonZero(a.digits, MaxInt(Len(a.digits) + shift, 0) + 1) # 0))

\* Decimal.__truediv__ of a finite value by Decimal(n), n a positive int:
\* divmod of the coefficient shifted to give Prec + 1 digits, the quotient
\* made sticky when inexact and stripped when exact, then _fix.
DecDivInt(a, n) ==
    DivShifted(a, n, Len(DigitsOfNat(n)) - Len(a.digits) + Prec + 1)

\* The digits ds with the last drop of them rounded away, half or more
\* rounding up.
HalfUp(ds, drop) ==
    IF ds[Len(ds) - drop + 1] >= 5
    THEN NatAdd(SubSeq(ds, 1, Len(ds) - drop), <<1>>, 10)
    ELSE StripZeros(SubSeq(ds, 1, Len(ds) - drop))

\* The digits ds with the last drop of them rounded away, a tie going to the
\* greater value: up for sign 0, down in magnitude for sign 1.
HalfTowardsGreater(sign, ds, drop) ==
    IF HalfCmp(ds, Len(ds) - drop) = 1 \/ (HalfCmp(ds, Len(ds) - drop) = 0 /\ sign = 0)
    THEN NatAdd(SubSeq(ds, 1, Len(ds) - drop), <<1>>, 10)
    ELSE StripZeros(SubSeq(ds, 1, Len(ds) - drop))

\* A quantize whose ties go to the greater of the two neighbours.
QuantizeTiesUp(d) ==
    IF d.exp >= -2 THEN Dec(d.sign, StripZeros(ScaledDigits(d, -2)), -2)
    ELSE Dec(d.sign, HalfTowardsGreater(d.sign, PadLeft(d.digits, -2 - d.exp + 1),
                                        -2 - d.exp), -2)

\* Decimal.quantize(Decimal('0.01'), rounding=ROUND_HALF_UP) of a finite
\* value: the value at exponent -2, a dropped part of half a cent or more
\* rounding the magnitude up (so ties go away from zero).
Quantize2(d) ==
    IF d.exp >= -2 THEN Dec(d.sign, StripZeros(ScaledDigits(d, -2)), -2)
    ELSE Dec(d.sign, HalfUp(PadLeft(d.digits, -2 - d.exp + 1), -2 - d.exp), -2)

(***************************************************************************)
(* Decimal(str): [sign] digits [. digits] [E [sign] digits], and the       *)
(* special values NaN and Infinity; any other string raises                *)
(* decimal.InvalidOperation, which the result "invalid" stands for.        *)
(* Strings are sequences of characters.                                    *)
(***************************************************************************)
DigitVal(ch) ==
    CASE ch = "0" -> 0 [] ch = "1" -> 1 [] ch = "2" -> 2 [] ch = "3" -> 3
      [] ch = "4" -> 4 [] ch = "5" -> 5 [] ch = "6" -> 6 [] ch = "7" -> 7
      [] ch = "8" -> 8 [] ch = "9" -> 9

DecInvalid == [kind |-> "invalid", sign |-> 0, digits |-> <<0>>, exp |-> 0]

AllDigits(s) ==
    \A i \in 1..Len(s) : s[i] \in {"0", "1", "2", "3", "4", "5", "6", "7", "8", "9"}

RECURSIVE NatOfChars(_, _, _)
NatOfChars(s, i, acc) ==
    IF i > Len(s) THEN acc ELSE NatOfChars(s, i + 1, acc * 10 + DigitVal(s[i]))

\* The first position of s holding one of chars, Len(s) + 1 when none does.
IndexOf(s, chars) ==
    IF \E i \in 1..Len(s) : s[i] \in chars
    THEN CHOOSE i \in 1..Len(s) : s[i] \in chars /\ \A j \in 1..(i - 1) : s[j] \notin chars
    ELSE Len(s) + 1

ExponentValue(neg, body) ==
    IF body = <<>> \/ ~AllDigits(body) THEN <<FALSE, 0>>
    ELSE <<TRUE, IF neg THEN -NatOfChars(body, 1, 0) ELSE NatOfChars(body, 1, 0)>>

\* The exponent part of a numeric string: <<well-formed, value>>; an absent
\* part (no E) is 0.
ParseExponent(s, epos) ==
    IF epos > Len(s) THEN <<TRUE, 0>>
    ELSE IF epos = Len(s) THEN <<FALSE, 0>>
    ELSE ExponentValue(s[epos + 1] = "-",
                       SubSeq(s, IF s[epos + 1] \in {"-", "+"} THEN epos + 2 ELSE epos + 1,
                              Len(s)))

ParseDigits(sign, all, nfrac, ex) ==
    IF all = <<>> \/ ~AllDigits(all) \/ ~ex[1] THEN DecInvalid
    ELSE Dec(sign, StripZeros([i \in 1..Len(all) |-> DigitVal(all[i])]), ex[2] - nfrac)

\* A second "." stays among the digits and makes them invalid.
ParseMantissa(sign, mant, dot, ex) ==
    ParseDigits(sign, SubSeq(mant, 1, dot - 1) \o SubSeq(mant, dot + 1, Len(mant)),
                MaxInt(Len(mant) - dot, 0), ex)

ParseNumber(sign, s, epos) ==
    ParseMantissa(sign, SubSeq(s, 1, epos - 1),
                  IndexOf(SubSeq(s, 1, epos - 1), {"."}), ParseExponent(s, epos))

ParseUnsigned(sign, s) ==
    IF s = <<"N", "a", "N">> THEN [kind |-> "NaN", sign |-> 0, digits |-> <<0>>, exp |-> 0]
    ELSE IF s = <<"I", "n", "f", "i", "n", "i", "t", "y">> 
    THEN [kind |-> "Infinity", sign |-> sign, digits |-> <<0>>, exp |-> 0]
    ELSE ParseNumber(sign, s, IndexOf(s, {"E", "e"}))

DecimalOfStr(s) ==
    IF s = <<>> THEN DecInvalid
    ELSE ParseUnsigned(IF s[1] = "-" THEN 1 ELSE 0,
                       IF s[1] \in {"-", "+"} THEN Tail(s) ELSE s)

DigitChar(d) == <<"0", "1", "2", "3", "4", "5", "6", "7", "8", "9">>[d + 1]

RECURSIVE CharsOfNat(_)
CharsOfNat(n) ==
    IF n < 10 THEN <<DigitChar(n)>>
    ELSE Append(CharsOfNat(n \div 10), DigitChar(n % 10))

\* Scientific notation: d.ddd, then E+x or E-x unless x is 0.
SciChars(cs, e10) ==
    SubSeq(cs, 1, 1)
    \o (IF Len(cs) > 1 THEN <<".">> \o SubSeq(cs, 2, Len(cs)) ELSE <<>>)
    \o (IF e10 = 0 THEN <<>>
        ELSE IF e10 < 0 THEN <<"E", "-">> \o CharsOfNat(-e10)
        ELSE <<"E", "+">> \o CharsOfNat(e10))

\* Plain notation, left digits before the point.
PlainChars(cs, left) ==
    IF left <= 0 THEN <<"0", ".">> \o [i \in 1..(-left) |-> "0"] \o cs
    ELSE IF left >= Len(cs) THEN cs
    ELSE SubSeq(cs, 1, left) \o <<".">> \o SubSeq(cs, left + 1, Len(cs))

CharsOfDec(d, cs, left) ==
    (IF d.sign = 1 THEN <<"-">> ELSE <<>>)
    \o (IF d.exp <= 0 /\ left > -6 THEN PlainChars(cs, left) ELSE SciChars(cs, left - 1))

\* Decimal.__str__ of a finite value: plain notation when the exponent is
\* at most 0 and the first digit stands for 10^-6 or more, scientific
\* notation otherwise.
StrOfDec(d) == 
    CharsOfDec(d, [i \in 1..Len(d.digits) |-> DigitChar(d.digits[i])],
               d.exp + Len(d.digits))

(***************************************************************************)
(* float: an IEEE binary64 value (-1)^neg * mant * 2^exp with              *)
(* 2^52 <= mant < 2^53 (mant = 0, exp = 0 for zero; -0.0 equals 0.0 and is *)
(* not told apart).  The mantissa is a number in base 2^15.                *)
(***************************************************************************)
LimbBase == 2^15

\* The number ds in base 2^15, four decimal digits at a time.
RECURSIVE LimbsOfDigits(_, _, _)
LimbsOfDigits(ds, i, acc) ==
    IF i > Len(ds) \/ Len(acc) = 0 THEN acc
    ELSE IF i + 3 <= Len(ds)
    THEN LimbsOfDigits(ds, i + 4,
                       NatMulAdd(acc, 10000,
                                 ds[i] * 1000 + ds[i + 1] * 100 + ds[i + 2] * 10 + ds[i + 3],
                                 LimbBase))
    ELSE LimbsOfDigits(ds, i + 1, NatMulAdd(acc, 10, ds[i], LimbBase))

\* The number of bits of a limb.
BitsOfNat(n) == CHOOSE k \in 0..15 : n < 2^k /\ (k = 0 \/ n >= 2^(k - 1))

\* The number of bits of x, a number without leading zeros (0 for zero).
BitLen(x) == (Len(x) - 1) * 15 + BitsOfNat(x[1])

\* x * 2^s
ShiftLeft(x, s) ==
    NatMulAdd(x, 2^(s % 15), 0, LimbBase) \o Zeros(s \div 15)

\* <<x \div n, x % n>> for a number x in base 2^15.
StripQuotient(r) == <<StripZeros(r[1]), r[2]>>

LimbsDiv(x, n) == StripQuotient(NatDivSmall(x, n, LimbBase))

FloatZero == [neg |-> FALSE, mant |-> <<0>>, exp |-> 0]

\* The quotient of qr = <<quotient, remainder of the division by 100>>
\* rounded to nearest, ties to the even quotient.
RoundHalfEven(qr) ==
    IF qr[2] > 50 \/ (qr[2] = 50 /\ qr[1][Len(qr[1])] % 2 = 1)
    THEN NatAdd(qr[1], <<1>>, LimbBase)
    ELSE qr[1]

\* A mantissa that rounding carried to 2^53 is halved.
FloatPack(neg, m, q) ==
    IF BitLen(m) > 53
    THEN [neg |-> neg, mant |-> LimbsDiv(m, 2)[1], exp |-> 1 - q]
    ELSE [neg |-> neg, mant |-> m, exp |-> -q]

FloatAtScale(neg, c, q) ==
    FloatPack(neg, RoundHalfEven(LimbsDiv(ShiftLeft(c, q), 100)), q)

\* q0 is the scale at which c * 2^q0 / 100 has 53 or 54 bits.
FloatScaled(neg, c, q0) ==
    FloatAtScale(neg, c,
                 IF BitLen(LimbsDiv(ShiftLeft(c, q0), 100)[1]) > 53
                 THEN q0 - 1 ELSE q0)

FloatOfLimbs(neg, c) == FloatScaled(neg, c, 60 - BitLen(c))

\* The binary64 value nearest to digits / 100 (ties to the even mantissa),
\* as float(Decimal) gives for a value of exponent -2.  With q the scale at
\* which digits * 2^q / 100 has 53 bits before the binary point, the mantissa
\* is that quotient rounded and the exponent is -q.  (For digits below 2^59
\* cents.)
FloatOfCents(sign, digits) ==
    IF IsZeroDigits(digits) THEN FloatZero
    ELSE FloatOfLimbs(sign = 1, LimbsOfDigits(StripZeros(digits), 1, <<0>>))

(***************************************************************************)
(* The exact sum of floats, as a signed whole number of units of 2^-59:    *)
(* every non-zero float that FloatOfCents gives is at least 0.01 in        *)
(* magnitude, so a whole number of such units.                             *)
(***************************************************************************)
FloatUnits(f) ==
    [neg |-> f.neg,
     mag |-> IF IsZeroDigits(f.mant) THEN <<0>>
             ELSE ShiftLeft(f.mant, f.exp + (52 + 7))]

SignedSum(x, y, c) ==
    IF x.neg = y.neg
    THEN [neg |-> x.neg, mag |-> NatAdd(x.mag, y.mag, LimbBase)]
    ELSE IF c = 0 THEN [neg |-> FALSE, mag |-> <<0>>]
    ELSE IF c > 0 THEN [neg |-> x.neg, mag |-> NatSub(x.mag, y.mag, LimbBase)]
    ELSE [neg |-> y.neg, mag |-> NatSub(y.mag, x.mag, LimbBase)]

SignedAdd(x, y) == SignedSum(x, y, CmpMag(x.mag, y.mag))

RECURSIVE FloatSumFrom(_, _)
FloatSumFrom(fs, i) ==
    IF i > Len(fs) THEN [neg |-> FALSE, mag |-> <<0>>]
    ELSE SignedAdd(FloatUnits(fs[i]), FloatSumFrom(fs, i + 1))


(***************************************************************************)
(* Python values, and the inputs of the model.                             *)
(***************************************************************************)
PyStr(x) == [t |-> "str", v |-> x]

PyInt(n) == [t |-> "int", v |-> n]

PyList(xs) == [t |-> "list", v |-> xs]

IsStr(x) == x.t = "str"

IsList(x) == x.t = "list"

Alice == PyStr("Alice")

Bob == PyStr("Bob")

Charlie == PyStr("Charlie")

\* str(amount) for the str and int amounts of the model.
StrOf(x) ==
    IF x.t # "int" THEN x.v
    ELSE IF x.v < 0 THEN <<"-">> \o CharsOfNat(-x.v)
    ELSE CharsOfNat(x.v)

TxnDict(payer, amount, receivers) ==
    [payer |-> payer, amount |-> amount, receivers |-> receivers]

Ten == PyStr(<<"1", "0", ".", "0", "0">>)

\* Candidates that add_transaction accepts.
TenCents == TxnDict(Alice, PyStr(<<"0", ".", "1", "0">>), PyList(<<Charlie>>))

TwentyCents == TxnDict(Bob, PyStr(<<"0", ".", "2", "0">>), PyList(<<Charlie>>))

OneCentForTwo ==
    TxnDict(Alice, PyStr(<<"0", ".", "0", "1">>), PyList(<<Bob, Charlie>>))

TenForThree == TxnDict(Alice, Ten, PyList(<<Alice, Bob, Charlie>>))

MaxAmountTxn ==
    TxnDict(Alice,
            PyStr(<<"9", "9", "9", "9", "9", "9", "9", "9", "9", "9", "9", "9",
                    ".", "9", "9">>),
            PyList(<<Bob>>))

SubCent == TxnDict(Bob, PyStr(<<"0", ".", "0", "0", "1">>), PyList(<<Alice>>))

IntAmountWithDescription ==
    [payer |-> Bob, amount |-> PyInt(20), receivers |-> PyList(<<Alice, Bob>>),
     description |-> PyStr("Lunch at a cafe")]

\* Candidates that add_transaction rejects, one for each check.
BadPayer == TxnDict(PyInt(123), Ten, PyList(<<Alice, Bob>>))

BadAmount == TxnDict(Alice, PyStr(<<"a", "b", "c">>), PyList(<<Alice, Bob>>))

NegativeAmount ==
    TxnDict(Alice, PyStr(<<"-", "1", "0", ".", "0", "0">>), PyList(<<Alice, Bob>>))

OverMax ==
    TxnDict(Alice,
            PyStr(<<"1", "0", "0", "0", "0", "0", "0", "0", "0", "0", "0", "0", "0",
                    ".", "0", "0">>),
            PyList(<<Bob>>))

NaNAmount == TxnDict(Alice, PyStr(<<"N", "a", "N">>), PyList(<<Bob>>))

MissingReceivers == [payer |-> Alice, amount |-> Ten]

\* Arguments of add_transaction.
Candidates ==
    {TenCents, TwentyCents, OneCentForTwo, TenForThree, MaxAmountTxn, SubCent,
     IntAmountWithDescription,
     BadPayer, BadAmount, NegativeAmount, OverMax, NaNAmount, MissingReceivers,
     TxnDict(Alice, PyStr(<<"0">>), PyList(<<Alice, Bob>>)),
     TxnDict(Alice, Ten, PyList(<<>>)),
     TxnDict(Alice, Ten, Bob),
     TxnDict(Alice, Ten, PyList(<<Bob, PyInt(123)>>))}

\* Arguments of add_transactions.
Batches ==
    { PyList(<<>>),
      PyList(<<TenCents, TwentyCents>>),
      PyList(<<OneCentForTwo, BadAmount>>),
      PyList(<<BadPayer, TenCents>>),
      PyList(<<TenForThree, NaNAmount, TenCents>>),
      PyList(<<IntAmountWithDescription, MissingReceivers, TwentyCents>>),
      PyList(<<SubCent, MaxAmountTxn>>),
      PyList(<<TxnDict(Alice, Ten, PyList(<<Alice, Bob>>)), IntAmountWithDescription>>),
      PyInt(5) }

\* Arguments of add_transactions for a group of up to five: two splits that
\* leave a tie, in both orders; one split among four and one among four
\* others; a split followed by a transfer of the debtor's share.
Scenarios ==
    { PyList(<<OneCentForTwo,
               TxnDict(Alice, PyStr(<<"0", ".", "0", "2">>), PyList(<<Charlie, Bob>>))>>),
      PyList(<<TxnDict(Alice, PyStr(<<"0", ".", "0", "2">>), PyList(<<Charlie, Bob>>)),
               OneCentForTwo>>),
      PyList(<<TxnDict(Alice, PyStr(<<"1", "0", "0", ".", "0", "0">>),
                       PyList(<<Alice, Bob, Charlie, PyStr("Dave")>>))>>),
      PyList(<<TxnDict(Alice, PyStr(<<"0", ".", "0", "2">>),
                       PyList(<<Bob, Charlie, PyStr("Dave"), PyStr("Eve")>>))>>),
      PyList(<<TxnDict(Alice, PyStr(<<"3", "0", ".", "0", "0">>), PyList(<<Alice, Bob>>)),
               TxnDict(Bob, PyStr(<<"1", "5", ".", "0", "0">>), PyList(<<Alice>>))>>),
      PyList(<<TxnDict(Alice, PyStr(<<"3", "0", ".", "0", "0">>), PyList(<<Alice, Bob, Charlie>>)),
               TxnDict(Bob, Ten, PyList(<<Alice>>))>>),
      PyList(<<TxnDict(Alice, PyStr(<<"0", ".", "0", "1">>), PyList(<<Alice, Bob>>)),
               TxnDict(Bob, PyStr(<<"0", ".", "0", "0", "5">>), PyList(<<Alice>>))>>) }

(***************************************************************************)
(* GroupExpenseCalculator (src/src/calculator/gpt_expense_calculator.py).  *)
(***************************************************************************)
VARIABLES
    transactions,   \* self._transactions of the GroupExpenseCalculator
    singleton,      \* self._transactions of the singleton GroupExpenseCalculator
                    \* (src/src/python/calculator/gpt_expense_calculator.py)
    iterOrder,      \* the iteration orders of set(net.keys()) consulted so far
    last,           \* the last call: operation, argument, outcome
    inflight        \* the add_transactions call that another thread is in

vars == <<transactions, singleton, iterOrder, last, inflight>>

\* self._MAX_AMOUNT = Decimal('999999999999.99')
MAX_AMOUNT == Dec(0, <<9, 9, 9, 9, 9, 9, 9, 9, 9, 9, 9, 9, 9, 9>>, -2)

NoExc == [type |-> "none", idx |-> -1, reason |-> ""]

Exc(type, reason) == [type |-> type, idx |-> -1, reason |-> reason]

\* The call add_transaction(**txn) binds payer, amount and receivers; other
\* keys go to **kwargs.  A missing one is a TypeError of the call.
BindsArguments(txn) == {"payer", "amount", "receivers"} \subseteq DOMAIN txn

\* amt = Decimal(str(amount))
AmountOf(txn) == DecimalOfStr(StrOf(txn.amount))

\* The checks of receivers.
ReceiversError(receivers) ==
    IF ~IsList(receivers)
    THEN Exc("TypeError", "receivers must be provided as a list")
    ELSE IF receivers.v = <<>>
    THEN Exc("ValueError", "receivers list cannot be empty")
    ELSE IF \E i \in 1..Len(receivers.v) : ~IsStr(receivers.v[i])
    THEN Exc("TypeError", "All receivers must be strings")
    ELSE NoExc

\* ValidationError with the check of the maximum left out (a fault that
\* C4 must detect).
ValidationErrorUnbounded(txn, amt) ==
    IF ~IsStr(txn.payer) THEN Exc("TypeError", "Payer must be a string")
    ELSE IF amt.kind = "invalid" THEN Exc("ValueError", "Invalid amount")
    ELSE IF amt.kind = "NaN" THEN Exc("InvalidOperation", "InvalidOperation")
    ELSE IF (amt.kind = "Infinity" /\ amt.sign = 1)
            \/ (amt.kind = "finite" /\ DecCmp(amt, DecZero) <= 0)
    THEN Exc("ValueError", "Amount must be positive")
    ELSE IF amt.kind = "Infinity"
    THEN Exc("ValueError", "Amount exceeds maximum allowed value")
    ELSE ReceiversError(txn.receivers)

\* ValidationError with amt >= self._MAX_AMOUNT for amt > self._MAX_AMOUNT
\* (a fault that C5 must detect).
ValidationErrorBelowMax(txn, amt) ==
    IF ~IsStr(txn.payer) THEN Exc("TypeError", "Payer must be a string")
    ELSE IF amt.kind = "invalid" THEN Exc("ValueError", "Invalid amount")
    ELSE IF amt.kind = "NaN" THEN Exc("InvalidOperation", "InvalidOperation")
    ELSE IF (amt.kind = "Infinity" /\ amt.sign = 1)
            \/ (amt.kind = "finite" /\ DecCmp(amt, DecZero) <= 0)
    THEN Exc("ValueError", "Amount must be positive")
    ELSE IF amt.kind = "Infinity" \/ DecCmp(amt, MAX_AMOUNT) >= 0
    THEN Exc("ValueError", "Amount exceeds maximum allowed value")
    ELSE ReceiversError(txn.receivers)

\* The exception add_transaction raises for the arguments of txn with amt
\* the amount parsed, NoExc when it raises none.  A NaN amount makes the
\* comparison amt <= 0 raise decimal.InvalidOperation, an ArithmeticError
\* outside the try.
ValidationError(txn, amt) ==
    IF ~IsStr(txn.payer) THEN Exc("TypeError", "Payer must be a string")
    ELSE IF amt.kind = "invalid" THEN Exc("ValueError", "Invalid amount")
    ELSE IF amt.kind = "NaN" THEN Exc("InvalidOperation", "InvalidOperation")
    ELSE IF (amt.kind = "Infinity" /\ amt.sign = 1)
            \/ (amt.kind = "finite" /\ DecCmp(amt, DecZero) <= 0)
    THEN Exc("ValueError", "Amount must be positive")
    ELSE IF amt.kind = "Infinity" \/ DecCmp(amt, MAX_AMOUNT) > 0
    THEN Exc("ValueError", "Amount exceeds maximum allowed value")
    ELSE ReceiversError(txn.receivers)

\* Transaction(payer=payer, amount=amt, receivers=receivers)
Transaction(payer, amt, receivers) ==
    [payer |-> payer, amount |-> amt, receivers |-> receivers]

\* Appended with the append done before the checks (a fault that C7 must
\* detect).
AppendedUnchecked(ledger, txn, amt, e) ==
    [transactions |-> Append(ledger, Transaction(txn.payer, amt, txn.receivers)),
     exc |-> e]

\* Appended with insert(0, ...) for append(...) (a fault that C10 must
\* detect).
AppendedInFront(ledger, txn, amt, e) ==
    IF e = NoExc
    THEN [transactions |-> <<Transaction(txn.payer, amt, txn.receivers)>> \o ledger,
          exc |-> NoExc]
    ELSE [transactions |-> ledger, exc |-> e]

\* self._transactions.append(...) when no check raised e.
Appended(ledger, txn, amt, e) ==
    IF e = NoExc
    THEN [transactions |-> Append(ledger, Transaction(txn.payer, amt, txn.receivers)),
          exc |-> NoExc]
    ELSE [transactions |-> ledger, exc |-> e]

Validated(ledger, txn, amt) == Appended(ledger, txn, amt, ValidationError(txn, amt))

\* add_transaction(**txn): the ledger after the call and the exception
\* raised.
add_transaction(ledger, txn) ==
    IF ~BindsArguments(txn)
    THEN [transactions |-> ledger, exc |-> Exc("TypeError", "missing required argument")]
    ELSE Validated(ledger, txn, AmountOf(txn))

\* The loop of add_transactions from element i (1-based here, idx = i - 1):
\* a TypeError or ValueError of add_transaction is raised again as a
\* ValueError naming idx; any other exception leaves the loop as it is.
RECURSIVE add_transactions_from(_, _, _)
Looped(batch, i, r) ==
    IF r.exc = NoExc THEN add_transactions_from(r.transactions, batch, i + 1)
    ELSE IF r.exc.type \in {"TypeError", "ValueError"}
    THEN [transactions |-> r.transactions,
          exc |-> [type |-> "ValueError", idx |-> i - 1, reason |-> r.exc.reason]]
    ELSE r

add_transactions_from(ledger, batch, i) ==
    IF i > Len(batch) THEN [transactions |-> ledger, exc |-> NoExc]
    ELSE Looped(batch, i, add_transaction(ledger, batch[i]))

add_transactions(ledger, arg) ==
    IF ~IsList(arg)
    THEN [transactions |-> ledger,
          exc |-> Exc("TypeError", "Transactions must be provided as a list")]
    ELSE add_transactions_from(ledger, arg.v, 1)

(***************************************************************************)
(* calculate_balances.  net is a defaultdict(Decimal): keys is its         *)
(* insertion order, val its values.                                        *)
(***************************************************************************)
InSeq(x, xs) == \E i \in 1..Len(xs) : xs[i] = x

NetGet(net, k) == IF InSeq(k, net.keys) THEN net.val[k] ELSE DecZero

NetSet(net, k, x) ==
    [keys |-> IF InSeq(k, net.keys) THEN net.keys ELSE Append(net.keys, k),
     val  |-> [kk \in DOMAIN net.val \cup {k} |-> IF kk = k THEN x ELSE net.val[kk]]]

\* for receiver in receivers_list: net[receiver] -= share
RECURSIVE DebitFrom(_, _, _, _)
DebitFrom(net, receivers, share, i) ==
    IF i > Len(receivers) THEN net
    ELSE DebitFrom(NetSet(net, receivers[i], DecSub(NetGet(net, receivers[i]), share)),
                   receivers, share, i + 1)

\* Shared without net[payer] += amount (a fault that C8 must detect).
SharedDebitsOnly(net, txn, amount) ==
    DebitFrom(net, txn.receivers.v, DecDivInt(amount, Len(txn.receivers.v)), 1)

\* share = amount / Decimal(len(receivers_list)); net[payer] += amount; the
\* loop over receivers_list.
Shared(net, txn, amount) ==
    DebitFrom(NetSet(net, txn.payer, DecAdd(NetGet(net, txn.payer), amount)),
              txn.receivers.v, DecDivInt(amount, Len(txn.receivers.v)), 1)

\* Accumulate with every receiver debited the amount, not the share (a
\* fault that C13 must detect).
AccumulateUnsplit(net, txn) ==
    DebitFrom(NetSet(net, txn.payer, DecAdd(NetGet(net, txn.payer), txn.amount)),
              txn.receivers.v, txn.amount, 1)

\* The body of the loop over self._transactions, for one transaction:
\* amount = Decimal(str(txn['amount'])).
Accumulate(net, txn) == Shared(net, txn, DecimalOfStr(StrOfDec(txn.amount)))

RECURSIVE NetFrom(_, _, _)
NetFrom(net, ledger, i) ==
    IF i > Len(ledger) THEN net
    ELSE NetFrom(Accumulate(net, ledger[i]), ledger, i + 1)

\* net after the loop.
NetOf(ledger) == NetFrom([keys |-> <<>>, val |-> <<>>], ledger, 1)

\* rounded_balances, before the correction.
RoundedOf(net) == [p \in DOMAIN net.val |-> Quantize2(net.val[p])]

\* sum(rounded.values()), the values taken in the order given.
RECURSIVE SumFrom(_, _, _, _)
SumFrom(rounded, order, i, acc) ==
    IF i > Len(order) THEN acc
    ELSE SumFrom(rounded, order, i + 1, DecAdd(acc, rounded[order[i]]))

SumOf(rounded, order) == SumFrom(rounded, order, 1, DecZero)

Cent == Dec(0, <<1>>, -2)

\* abs(x) >= Decimal('0.01')
AtLeastCent(x) == DecCmp([x EXCEPT !.sign = 0], Cent) >= 0

\* Extremal with max and min exchanged (a fault that C17 must detect).
ExtremalOpposite(rounded, dir) ==
    {p \in DOMAIN rounded :
        \A q \in DOMAIN rounded : dir * DecCmp(rounded[p], rounded[q]) <= 0}

\* The keys that max(rounded, key=rounded.get) (dir = 1) or min(...)
\* (dir = -1) may return: those whose value no other key's value exceeds.
\* max and min return the first of them in iteration order.
Extremal(rounded, dir) ==
    {p \in DOMAIN rounded :
        \A q \in DOMAIN rounded : dir * DecCmp(rounded[p], rounded[q]) >= 0}

FirstOf(order, set) ==
    order[CHOOSE i \in 1..Len(order) :
            /\ order[i] \in set
            /\ \A j \in 1..(i - 1) : order[j] \notin set]

\* Adjusted with the correction taken from everybody whose balance is the
\* candidate's (a fault that C12 must detect).
AdjustedAll(rounded, candidate, residual) ==
    [p \in DOMAIN rounded |->
        IF rounded[p] = rounded[candidate]
        THEN DecSub(rounded[p], Quantize2(residual))
        ELSE rounded[p]]

\* rounded_balances[candidate] -= correction, with
\* correction = residual.quantize(Decimal('0.01'), rounding=ROUND_HALF_UP).
Adjusted(rounded, candidate, residual) ==
    [rounded EXCEPT ![candidate] = DecSub(@, Quantize2(residual))]

\* Corrected without the residual branch (a fault that C1 must detect).
Uncorrected(rounded, order, residual) == rounded

\* The residual branch: the largest creditor for a positive residual, the
\* largest debtor otherwise.
Corrected(rounded, order, residual) ==
    IF AtLeastCent(residual)
    THEN Adjusted(rounded,
                  FirstOf(order, Extremal(rounded, IF DecCmp(residual, DecZero) > 0
                                                   THEN 1 ELSE -1)),
                  residual)
    ELSE rounded

\* rounded_balances after the residual correction.
CorrectedOf(rounded, order) == Corrected(rounded, order, SumOf(rounded, order))

\* float(value) for a balance.
FloatOfDec(d) == FloatOfCents(d.sign, ScaledDigits(d, -2))

\* What calculate_balances leaves: rounded_balances at the return, the
\* mapping of floats returned, and whether the zero-sum warning was given.
Returned(final, order) ==
    [rounded  |-> final,
     balances |-> [p \in DOMAIN final |-> FloatOfDec(final[p])],
     warned   |-> AtLeastCent(SumOf(final, order))]

\* calculate_balances from the net it accumulated, order being the
\* iteration order of set(net.keys()).
BalancesOf(net, order) == Returned(CorrectedOf(RoundedOf(net), order), order)

\* Whether the iteration order of the set decides the result: the residual
\* is corrected and max (or min) has several keys to choose from.
Tied(rounded, residual) ==
    /\ AtLeastCent(residual)
    /\ Cardinality(Extremal(rounded, IF DecCmp(residual, DecZero) > 0 THEN 1 ELSE -1)) > 1

OrderConsulted(net) == Tied(RoundedOf(net), SumOf(RoundedOf(net), net.keys))

IterationOrders(xs) ==
    {[i \in 1..Len(xs) |-> xs[f[i]]] :
        f \in {g \in [1..Len(xs) -> 1..Len(xs)] :
                 \A i, j \in 1..Len(xs) : g[i] = g[j] => i = j}}

\* The orders set(net.keys()) may be iterated in: the one consulted before
\* for these keys if any; any, when the order is consulted for the first
\* time; the insertion order when it makes no difference.
Orders(keys, memo, consulted) ==
    IF \E m \in memo : m.keys = keys THEN {m.order : m \in {n \in memo : n.keys = keys}}
    ELSE IF consulted THEN IterationOrders(keys)
    ELSE {keys}

Remembered(keys, memo, order, consulted) ==
    IF consulted THEN memo \cup {[keys |-> keys, order |-> order]} ELSE memo

(***************************************************************************)
(* The calls on one GroupExpenseCalculator.                                *)
(***************************************************************************)
MaxLedger == 2

NoRet == <<>>

Call(op, arg, before, exc, ret) ==
    [op |-> op, arg |-> arg, before |-> before, exc |-> exc, ret |-> ret]

Init ==
    /\ transactions = <<>>
    /\ singleton = <<>>
    /\ iterOrder = {}
    /\ last = Call("init", NoRet, <<>>, NoExc, NoRet)
    /\ inflight = <<>>

AddTransaction ==
    \E c \in Candidates :
        \E r \in {add_transaction(transactions, c)} :
            /\ Len(r.transactions) <= MaxLedger
            /\ transactions' = r.transactions
            /\ last' = Call("add_transaction", c, transactions, r.exc, NoRet)
            /\ UNCHANGED <<singleton, iterOrder, inflight>>

AddTransactions ==
    \E b \in Batches :
        \E r \in {add_transactions(transactions, b)} :
            /\ Len(r.transactions) <= MaxLedger
            /\ transactions' = r.transactions
            /\ last' = Call("add_transactions", b, transactions, r.exc, NoRet)
            /\ UNCHANGED <<singleton, iterOrder, inflight>>

\* CalculateBalances taking the transactions off the ledger as it processes
\* them (a fault that C9 must detect).
CalculateBalancesDraining ==
    \E net \in {NetOf(transactions)} :
        \E consulted \in {OrderConsulted(net)} :
            \E order \in Orders(net.keys, iterOrder, consulted) :
                /\ last' = Call("calculate_balances", NoRet, transactions, NoExc,
                                BalancesOf(net, order))
                /\ iterOrder' = Remembered(net.keys, iterOrder, order, consulted)
                /\ transactions' = <<>>
                /\ UNCHANGED <<singleton, inflight>>

\* The iteration order of set(net.keys()) depends on the hashes of the
\* strings (randomised per process) and on the order the keys were inserted
\* in; it is the same whenever the same keys are inserted in the same order
\* in this process.  It is chosen here when it is first consulted.
CalculateBalances ==
    \E net \in {NetOf(transactions)} :
        \E consulted \in {OrderConsulted(net)} :
            \E order \in Orders(net.keys, iterOrder, consulted) :
                /\ last' = Call("calculate_balances", NoRet, transactions, NoExc,
                                BalancesOf(net, order))
                /\ iterOrder' = Remembered(net.keys, iterOrder, order, consulted)
                /\ UNCHANGED <<transactions, singleton, inflight>>

Next == AddTransaction \/ AddTransactions \/ CalculateBalances

Spec == Init /\ [][Next]_vars

\* The calls on a calculator that a group of up to five people uses.
SubmitScenario ==
    \E b \in Scenarios :
        \E r \in {add_transactions(transactions, b)} :
            /\ Len(r.transactions) <= MaxLedger
            /\ transactions' = r.transactions
            /\ last' = Call("add_transactions", b, transactions, r.exc, NoRet)
            /\ UNCHANGED <<singleton, iterOrder, inflight>>

NextScenarios == SubmitScenario \/ CalculateBalances

SpecScenarios == Init /\ [][NextScenarios]_vars

(***************************************************************************)
(* Two threads on one calculator, which has no lock: one is in             *)
(* add_transactions, where the other may run between two iterations of the *)
(* loop; the other calls calculate_balances, taken as one step.            *)
(***************************************************************************)
\* The call begins: transactions is a list.
BeginAddTransactions ==
    \E b \in {a \in Batches : IsList(a)} :
        /\ inflight = <<>>
        /\ Len(add_transactions(transactions, b).transactions) <= MaxLedger
        /\ inflight' = [batch |-> b.v, idx |-> 0, before |-> transactions]
        /\ UNCHANGED <<transactions, singleton, iterOrder, last>>

\* One iteration of the loop, or the end of the call on an empty list: the
\* call goes on to the next element, or ends, by an exception or with the
\* loop.
StepAddTransactions ==
    /\ inflight # <<>>
    /\ \E r \in {add_transactions_from(transactions,
                                       SubSeq(inflight.batch, 1,
                                              MinInt(inflight.idx + 1,
                                                     Len(inflight.batch))),
                                       inflight.idx + 1)} :
          /\ transactions' = r.transactions
          /\ IF r.exc = NoExc /\ inflight.idx + 1 < Len(inflight.batch)
             THEN /\ inflight' = [inflight EXCEPT !.idx = @ + 1]
                  /\ UNCHANGED last
             ELSE /\ inflight' = <<>>
                  /\ last' = Call("add_transactions", PyList(inflight.batch),
                                  inflight.before, r.exc, NoRet)
    /\ UNCHANGED <<singleton, iterOrder>>

NextThreads == BeginAddTransactions \/ StepAddTransactions \/ CalculateBalances

SpecThreads == Init /\ [][NextThreads]_vars

(***************************************************************************)
(* The singleton GroupExpenseCalculator                                    *)
(* (src/src/python/calculator/gpt_expense_calculator.py), which stores the *)
(* transaction dicts as submitted, and the entry points.                   *)
(***************************************************************************)
\* str(e): the text of an exception, which keeps the index and the reason
\* that the exception was built from and drops its type.
StrOfExc(e) == [idx |-> e.idx, reason |-> e.reason]

Text(s) == [idx |-> -1, reason |-> s]

\* The checks of amount: a str whose Decimal is truthy (not zero).  Decimal()
\* raises InvalidOperation for a str that is no number; NaN and Infinity
\* are truthy.
AmountError(amt) ==
    IF amt.kind = "invalid" THEN Exc("InvalidOperation", "ConversionSyntax")
    ELSE IF amt.kind = "finite" /\ IsZeroDigits(amt.digits)
    THEN Exc("ValueError", "Amount must be a valid string representation of a number")
    ELSE NoExc

\* The checks that follow those of amount.
ReceiversInvalid(txn) ==
    IF "receivers" \notin DOMAIN txn THEN Exc("KeyError", "receivers")
    ELSE IF ~IsList(txn.receivers) \/ txn.receivers.v = <<>>
    THEN Exc("ValueError", "Receivers must be a non-empty list of strings")
    ELSE IF \E i \in 1..Len(txn.receivers.v) : ~IsStr(txn.receivers.v[i])
    THEN Exc("ValueError", "All receivers must be strings")
    ELSE NoExc

\* _validate_transaction: the exception it raises, NoExc when none.
validate_transaction(txn) ==
    IF "payer" \notin DOMAIN txn THEN Exc("KeyError", "payer")
    ELSE IF ~IsStr(txn.payer) THEN Exc("ValueError", "Payer must be a string")
    ELSE IF "amount" \notin DOMAIN txn THEN Exc("KeyError", "amount")
    ELSE IF ~IsStr(txn.amount)
    THEN Exc("ValueError", "Amount must be a valid string representation of a number")
    ELSE IF AmountError(DecimalOfStr(txn.amount.v)) # NoExc
    THEN AmountError(DecimalOfStr(txn.amount.v))
    ELSE ReceiversInvalid(txn)

\* The loop of the singleton's add_transactions from element i: validate,
\* then append the dict as it is; any exception ends the loop and becomes
\* the error that is returned.
RECURSIVE singleton_loop(_, _, _)
Validates(ledger, batch, i, e) ==
    IF e = NoExc THEN singleton_loop(Append(ledger, batch[i]), batch, i + 1)
    ELSE [transactions |-> ledger,
          ret |-> [status |-> "error", message |-> StrOfExc(e)]]

singleton_loop(ledger, batch, i) ==
    IF i > Len(batch)
    THEN [transactions |-> ledger,
          ret |-> [status |-> "success", message |-> Text("Transactions added successfully.")]]
    ELSE Validates(ledger, batch, i, validate_transaction(batch[i]))

\* GroupExpenseCalculator.add_transactions of the singleton: it returns a
\* dict and raises nothing.  An argument that is no list cannot be iterated
\* (a TypeError, returned like the rest).
singleton_add_transactions(ledger, arg) ==
    IF ~IsList(arg)
    THEN [transactions |-> ledger,
          ret |-> [status |-> "error", message |-> Text("object is not iterable")]]
    ELSE singleton_loop(ledger, arg.v, 1)

\* What the command line's add_transactions answers after the calculator
\* returned ret: ret is dropped.
Answered(r) ==
    [transactions |-> r.transactions, exc |-> NoExc,
     response |-> [status |-> "success", message |-> Text("Transactions added")]]

\* add_transactions(data) of src/src/python/api/index.py.
cli_add_transactions(ledger, data) ==
    IF "transactions" \notin DOMAIN data
    THEN [transactions |-> ledger, exc |-> Exc("KeyError", "transactions"),
          response |-> NoRet]
    ELSE Answered(singleton_add_transactions(ledger, data.transactions))

(***************************************************************************)
(* handler(request) of src/api/index.py.  Its calculator is the            *)
(* GroupExpenseCalculator of src.calculator.gpt_math_calculator, a module  *)
(* that is not among the sources: its two operations are taken to be the   *)
(* submit and balance operations of the calculator above.                  *)
(***************************************************************************)
gpt_math_add_transactions(ledger, arg) == add_transactions(ledger, arg)

gpt_math_calculate_balances(net, order) == BalancesOf(net, order).balances

Response(code, body) == [statusCode |-> code, body |-> body]

ErrorBody(message) == [status |-> "error", message |-> message]

\* The answer to /api/add-transactions after the calculator's call ended
\* as r.
Submitted(r) ==
    [transactions |-> r.transactions,
     response |-> IF r.exc = NoExc
                  THEN Response(200, [status |-> "success",
                                      message |-> Text("Transactions added")])
                  ELSE Response(400, ErrorBody(StrOfExc(r.exc)))]

handler(ledger, request, balances) ==
    IF ~request.json
    THEN [transactions |-> ledger,
          response |-> Response(400, ErrorBody(Text("Invalid JSON body")))]
    ELSE IF request.path = "/api/add-transactions"
    THEN IF "transactions" \notin DOMAIN request.data
         THEN [transactions |-> ledger,
               response |-> Response(400, ErrorBody(Text("'transactions'")))]
         ELSE Submitted(gpt_math_add_transactions(ledger, request.data.transactions))
    ELSE IF request.path = "/api/calculate"
    THEN [transactions |-> ledger,
          response |-> Response(200, [status |-> "success", balances |-> balances])]
    ELSE [transactions |-> ledger,
          response |-> Response(404, ErrorBody(Text("Invalid endpoint")))]

\* Request bodies: a JSON object with the key transactions, one without it,
\* and a body that is no JSON.
Request(path, json, data) == [path |-> path, json |-> json, data |-> data]

NoTransactions == [comment |-> PyStr("none")]

Bodies == {[transactions |-> b] : b \in Batches} \cup {NoTransactions}

Requests ==
    {Request("/api/add-transactions", TRUE, d) : d \in Bodies}
    \cup {Request("/api/add-transactions", FALSE, NoTransactions),
          Request("/api/calculate", TRUE, NoTransactions),
          Request("/api/balances", TRUE, NoTransactions)}

Handler ==
    \E net \in {NetOf(transactions)} :
        \E request \in Requests :
            \E consulted \in {request.json /\ request.path = "/api/calculate"
                              /\ OrderConsulted(net)} :
                \E order \in Orders(net.keys, iterOrder, consulted) :
                    \E r \in {handler(transactions, request,
                                      gpt_math_calculate_balances(net, order))} :
                        /\ Len(r.transactions) <= MaxLedger
                        /\ transactions' = r.transactions
                        /\ last' = Call("handler", request, transactions, NoExc, r.response)
                        /\ iterOrder' = Remembered(net.keys, iterOrder, order, consulted)
                        /\ UNCHANGED <<singleton, inflight>>

CliAddTransactions ==
    \E data \in Bodies :
        \E r \in {cli_add_transactions(singleton, data)} :
            /\ Len(r.transactions) <= MaxLedger
            /\ singleton' = r.transactions
            /\ last' = Call("cli add_transactions", data, singleton, r.exc, r.response)
            /\ UNCHANGED <<transactions, iterOrder, inflight>>

NextApi == CliAddTransactions \/ Handler

\* The entry points, each on the calculator of its module.
SpecApi == Init /\ [][NextApi]_vars

(***************************************************************************)
(* The two calculators side by side: every batch is submitted to both and  *)
(* the balances of both are read.                                          *)
(***************************************************************************)
\* The loop of the singleton's calculate_balances from transaction i, with
\* amount = Decimal(txn['amount']).
RECURSIVE singleton_net(_, _, _)
singleton_net(net, ledger, i) ==
    IF i > Len(ledger) THEN net
    ELSE singleton_net(Shared(net, ledger[i], DecimalOfStr(ledger[i].amount.v)),
                       ledger, i + 1)

\* calculate_balances of the singleton: each net quantized and made a
\* float, nothing else.
singleton_calculate_balances(net) ==
    [p \in DOMAIN net.val |-> FloatOfDec(Quantize2(net.val[p]))]

\* The batches submitted to both: one candidate each, and some of two.  (No
\* amount is NaN: the singleton stores it, and its balances are then NaN.)
BothBatches ==
    {PyList(<<c>>) : c \in Candidates \ {NaNAmount}}
    \cup {PyList(<<TenCents, TwentyCents>>), PyList(<<OneCentForTwo, BadAmount>>),
          PyList(<<BadPayer, TenCents>>), PyInt(5)}

SubmitBoth ==
    \E b \in BothBatches :
        \E r \in {add_transactions(transactions, b)} :
            \E s \in {singleton_add_transactions(singleton, b)} :
                /\ Len(r.transactions) <= MaxLedger
                /\ Len(s.transactions) <= MaxLedger
                /\ transactions' = r.transactions
                /\ singleton' = s.transactions
                /\ last' = Call("submit to both", b, transactions, r.exc, s.ret)
                /\ UNCHANGED <<iterOrder, inflight>>

CalculateBoth ==
    \E net \in {NetOf(transactions)} :
        \E consulted \in {OrderConsulted(net)} :
            \E order \in Orders(net.keys, iterOrder, consulted) :
                /\ last' = Call("calculate both", NoRet, transactions, NoExc,
                                [balances |-> BalancesOf(net, order).balances,
                                 singleton |-> singleton_calculate_balances(
                                     singleton_net([keys |-> <<>>, val |-> <<>>],
                                                   singleton, 1))])
                /\ iterOrder' = Remembered(net.keys, iterOrder, order, consulted)
                /\ UNCHANGED <<transactions, singleton, inflight>>

NextBoth == SubmitBoth \/ CalculateBoth

SpecBoth == Init /\ [][NextBoth]_vars

(***************************************************************************)
(* The properties.                                                         *)
(***************************************************************************)
\* The elements of a finite set, one after the other.
RECURSIVE KeySeq(_)
KeySeq(S) ==
    IF S = {} THEN <<>>
    ELSE LET p == CHOOSE q \in S : TRUE
         IN  <<p>> \o KeySeq(S \ {p})

Calculated == last.op = "calculate_balances"

\* The residual of the balances as rounded, before any correction.
ResidualOf(ledger) == SumOf(RoundedOf(NetOf(ledger)), NetOf(ledger).keys)

\* C1, as first stated: the values of the mapping that calculate_balances
\* returns (floats) sum to exactly 0.
C1_ReturnedValuesSumToZero ==
    Calculated =>
        IsZeroDigits(FloatSumFrom(
            [i \in 1..Cardinality(DOMAIN last.ret.balances) |->
                last.ret.balances[KeySeq(DOMAIN last.ret.balances)[i]]], 1).mag)

\* C1, as amended: the balances of two decimals that calculate_balances
\* holds when it returns sum to exactly 0.00, the zero-sum warning is not
\* given, and each value returned is the float of one of these balances.
C1_RoundedBalancesSumToZero ==
    Calculated =>
        /\ IsZeroDigits(SumOf(last.ret.rounded, KeySeq(DOMAIN last.ret.rounded)).digits)
        /\ ~last.ret.warned
        /\ \A p \in DOMAIN last.ret.rounded :
              /\ last.ret.rounded[p].exp = -2
              /\ last.ret.balances[p] = FloatOfDec(last.ret.rounded[p])

\* A calculation in which the residual was corrected.
C1_Witness == Calculated /\ AtLeastCent(ResidualOf(last.before))

\* The validator of the specification: a string payer, an amount that is a
\* number with 0 < amount <= MAX_AMOUNT, a list of one or more strings as
\* receivers.
SpecValid(txn) ==
    /\ {"payer", "amount", "receivers"} \subseteq DOMAIN txn
    /\ IsStr(txn.payer)
    /\ AmountOf(txn).kind = "finite"
    /\ DecCmp(AmountOf(txn), DecZero) > 0
    /\ DecCmp(AmountOf(txn), MAX_AMOUNT) <= 0
    /\ IsList(txn.receivers)
    /\ txn.receivers.v # <<>>
    /\ \A i \in 1..Len(txn.receivers.v) : IsStr(txn.receivers.v[i])

\* The position of the first element of batch that is not valid, 0 if all
\* are valid.
FirstInvalid(batch) ==
    IF \A i \in 1..Len(batch) : SpecValid(batch[i]) THEN 0
    ELSE CHOOSE i \in 1..Len(batch) :
            ~SpecValid(batch[i]) /\ \A j \in 1..(i - 1) : SpecValid(batch[j])

\* The ledger before, grown by the first k elements of batch in order.
RECURSIVE Grown(_, _, _)
Grown(before, batch, k) ==
    IF k = 0 THEN before
    ELSE Append(Grown(before, batch, k - 1),
                Transaction(batch[k].payer, AmountOf(batch[k]), batch[k].receivers))

\* C2: add_transactions appends the elements in order up to the first
\* invalid one, and fails there with an error that names its index and the
\* reason; without an invalid element it appends them all.
C2_BatchFailsFastWithIndex ==
    (last.op = "add_transactions" /\ IsList(last.arg)) =>
        IF FirstInvalid(last.arg.v) = 0
        THEN /\ last.exc = NoExc
             /\ transactions = Grown(last.before, last.arg.v, Len(last.arg.v))
        ELSE /\ last.exc.type = "ValueError"
             /\ last.exc.idx = FirstInvalid(last.arg.v) - 1
             /\ last.exc.reason # ""
             /\ transactions = Grown(last.before, last.arg.v, FirstInvalid(last.arg.v) - 1)

\* The last call was a submission of a list through the command line.
CliSubmitted ==
    /\ last.op = "cli add_transactions"
    /\ "transactions" \in DOMAIN last.arg
    /\ IsList(last.arg.transactions)

\* The last call was a submission of a list through the HTTP handler.
HandlerSubmitted ==
    /\ last.op = "handler"
    /\ last.arg.json
    /\ last.arg.path = "/api/add-transactions"
    /\ "transactions" \in DOMAIN last.arg.data
    /\ IsList(last.arg.data.transactions)

\* A submission of batch answered by answer, the ledger growing by grown
\* elements: an invalid element makes the answer an error with its index
\* and the reason, and a success means that every element was accepted.
ReportsInvalid(batch, answer, grown) ==
    /\ FirstInvalid(batch) # 0 =>
          /\ answer.status = "error"
          /\ answer.message.idx = FirstInvalid(batch) - 1
          /\ answer.message.reason # ""
    /\ answer.status = "success" => grown = Len(batch)

\* C3: on the command line's add_transactions and on the HTTP handler, a
\* list with an invalid element at index i is answered with an error that
\* carries i and the reason, never with the success confirmation, which is
\* returned only when every element was accepted.
C3_EntryPointsReportInvalid ==
    /\ CliSubmitted =>
          ReportsInvalid(last.arg.transactions.v, last.ret,
                         Len(singleton) - Len(last.before))
    /\ HandlerSubmitted =>
          ReportsInvalid(last.arg.data.transactions.v, last.ret.body,
                         Len(transactions) - Len(last.before))

\* C4: every transaction in the ledger has 0 < amount <= 999999999999.99,
\* one or more receivers, a string payer and string receivers.
C4_StoredTransactionsValid ==
    \A i \in 1..Len(transactions) :
        /\ transactions[i].amount.kind = "finite"
        /\ DecCmp(transactions[i].amount, DecZero) > 0
        /\ DecCmp(transactions[i].amount, MAX_AMOUNT) <= 0
        /\ IsStr(transactions[i].payer)
        /\ IsList(transactions[i].receivers)
        /\ Len(transactions[i].receivers.v) >= 1
        /\ \A j \in 1..Len(transactions[i].receivers.v) :
              IsStr(transactions[i].receivers.v[j])

\* A batch failed after one of its elements was stored.
C4_Witness ==
    /\ last.op = "add_transactions"
    /\ last.exc # NoExc
    /\ Len(transactions) > Len(last.before)

\* The last call was add_transaction with a string payer, a list of one or
\* more strings as receivers and an amount that is a number.
OtherwiseValid ==
    /\ last.op = "add_transaction"
    /\ {"payer", "amount", "receivers"} \subseteq DOMAIN last.arg
    /\ IsStr(last.arg.payer)
    /\ IsList(last.arg.receivers)
    /\ last.arg.receivers.v # <<>>
    /\ \A i \in 1..Len(last.arg.receivers.v) : IsStr(last.arg.receivers.v[i])
    /\ AmountOf(last.arg).kind = "finite"

\* C5: add_transaction of an amount equal to the maximum succeeds; of one
\* cent more fails as too large; of 0 or less fails as not positive.
C5_AmountBoundary ==
    OtherwiseValid =>
        /\ DecCmp(AmountOf(last.arg), MAX_AMOUNT) = 0 =>
              /\ last.exc = NoExc
              /\ transactions = Grown(last.before, <<last.arg>>, 1)
        /\ DecCmp(AmountOf(last.arg), DecAdd(MAX_AMOUNT, Cent)) = 0 =>
              /\ last.exc.type = "ValueError"
              /\ last.exc.reason = "Amount exceeds maximum allowed value"
              /\ transactions = last.before
        /\ DecCmp(AmountOf(last.arg), DecZero) <= 0 =>
              /\ last.exc.type = "ValueError"
              /\ last.exc.reason = "Amount must be positive"
              /\ transactions = last.before

\* The maximum was submitted and stored.
C5_Witness ==
    /\ OtherwiseValid
    /\ DecCmp(AmountOf(last.arg), MAX_AMOUNT) = 0
    /\ Len(transactions) = Len(last.before) + 1

\* d is a whole number of cents.
WholeCents(d) ==
    \A k \in 1..Len(d.digits) : k > Len(d.digits) + d.exp + 2 => d.digits[k] = 0

\* C6: every amount in the ledger is a whole number of cents.
C6_StoredAmountsWholeCents ==
    \A i \in 1..Len(transactions) : WholeCents(transactions[i].amount)

\* C7: a call of add_transaction that raises leaves the ledger as it was.
C7_RejectedLeavesLedger ==
    (last.op = "add_transaction" /\ last.exc # NoExc) => transactions = last.before

\* A candidate was rejected on a ledger that holds transactions.
C7_Witness ==
    /\ last.op = "add_transaction"
    /\ last.exc # NoExc
    /\ Len(last.before) >= 1

\* The payers and receivers of a ledger.
People(ledger) ==
    {ledger[i].payer : i \in 1..Len(ledger)}
    \cup UNION {{ledger[i].receivers.v[j] : j \in 1..Len(ledger[i].receivers.v)} :
                   i \in 1..Len(ledger)}

\* C8: the keys of the mapping returned are the payers and receivers of the
\* ledger, no more and no fewer.
C8_KeysArePayersAndReceivers ==
    Calculated => DOMAIN last.ret.balances = People(transactions)

\* A calculation that returned a balance of zero for somebody.
C8_Witness ==
    /\ Calculated
    /\ transactions # <<>>
    /\ \E p \in DOMAIN last.ret.balances : last.ret.balances[p] = FloatZero

\* C9: calculate_balances called again, nothing submitted since, returns the
\* mapping it returned before.
C9_RepeatedCalculationAgrees ==
    [][(Calculated /\ last'.op = "calculate_balances")
          => last'.ret.balances = last.ret.balances]_vars

\* A calculation whose result rests on the iteration order of the set.
C9_Witness ==
    /\ Calculated
    /\ \E m \in iterOrder : m.keys = NetOf(transactions).keys

IsPrefix(s, t) == Len(s) <= Len(t) /\ SubSeq(t, 1, Len(s)) = s

\* C10: every step leaves the ledger as it was or appends to it, and a
\* call of calculate_balances leaves it as it was.
C10_LedgerAppendOnly ==
    [][/\ IsPrefix(transactions, transactions')
       /\ last'.op = "calculate_balances" => transactions' = transactions]_vars

\* A calculation on a ledger of two transactions or more.
C10_Witness == Calculated /\ Len(transactions) >= 2

\* C11: the ledger's transactions held in any other order give the mapping
\* that calculate_balances returned, whatever order the set of keys is then
\* iterated in.
C11_InsertionOrderIrrelevant ==
    Calculated =>
        \A ledger \in IterationOrders(transactions) :
            \A order \in Orders(NetOf(ledger).keys, iterOrder,
                                OrderConsulted(NetOf(ledger))) :
                BalancesOf(NetOf(ledger), order).balances = last.ret.balances

Distinct(xs) == \A i, j \in 1..Len(xs) : xs[i] = xs[j] => i = j

\* The ledger holds one transaction, whose receivers are distinct and do
\* not include its payer.
SingleSplit ==
    /\ Len(transactions) = 1
    /\ Distinct(transactions[1].receivers.v)
    /\ ~InSeq(transactions[1].payer, transactions[1].receivers.v)

\* The float of minus the share of the one transaction, rounded to cents.
RoundedShare ==
    FloatOfDec(DecNeg(Quantize2(DecDivInt(transactions[1].amount,
                                          Len(transactions[1].receivers.v)))))

\* C12: after one transaction with N distinct receivers, none of them the
\* payer, the balance of every receiver but one at most is minus amount/N
\* rounded to cents.
C12_ReceiversShareAlike ==
    (Calculated /\ SingleSplit) =>
        Cardinality({i \in 1..Len(transactions[1].receivers.v) :
                        last.ret.balances[transactions[1].receivers.v[i]]
                            # RoundedShare}) <= 1

\* One of several receivers carries the residual correction.
C12_Witness ==
    /\ Calculated
    /\ SingleSplit
    /\ Len(transactions[1].receivers.v) >= 2
    /\ \E i \in 1..Len(transactions[1].receivers.v) :
          last.ret.balances[transactions[1].receivers.v[i]] # RoundedShare

\* The amount of txn divides into its receivers as a whole number of cents.
EvenSplit(txn) == WholeCents(DecDivInt(txn.amount, Len(txn.receivers.v)))

\* d taken k times.
RECURSIVE Times(_, _)
Times(d, k) == IF k = 0 THEN DecZero ELSE DecAdd(Times(d, k - 1), d)

\* What p paid in txn, less the share for every receiver slot p has in it.
PaidLessShares(txn, p) ==
    DecSub(IF txn.payer = p THEN txn.amount ELSE DecZero,
           Times(DecDivInt(txn.amount, Len(txn.receivers.v)),
                 Cardinality({j \in 1..Len(txn.receivers.v) : txn.receivers.v[j] = p})))

\* The same over the first i transactions of the ledger.
RECURSIVE Exact(_, _, _)
Exact(ledger, p, i) ==
    IF i = 0 THEN DecZero
    ELSE DecAdd(Exact(ledger, p, i - 1), PaidLessShares(ledger[i], p))

AllEvenSplits == \A i \in 1..Len(transactions) : EvenSplit(transactions[i])

\* C13: when every amount divides into its receivers as whole cents, each
\* person's balance is what they paid less their shares, and no residual is
\* corrected.
C13_EvenSplitsAreExact ==
    (Calculated /\ AllEvenSplits) =>
        /\ ~AtLeastCent(ResidualOf(transactions))
        /\ \A p \in DOMAIN last.ret.balances :
              /\ DecCmp(last.ret.rounded[p],
                        Exact(transactions, p, Len(transactions))) = 0
              /\ last.ret.balances[p]
                    = FloatOfDec(Quantize2(Exact(transactions, p, Len(transactions))))

\* Alice paid 10.00 for Alice and Bob, Bob paid 20.00 for Alice and Bob:
\* Alice -5.00, Bob 5.00.
C13_Witness ==
    /\ Calculated
    /\ AllEvenSplits
    /\ Len(transactions) = 2
    /\ DOMAIN last.ret.rounded = {Alice, Bob}
    /\ DecCmp(last.ret.rounded[Alice], Dec(1, <<5>>, 0)) = 0
    /\ DecCmp(last.ret.rounded[Bob], Dec(0, <<5>>, 0)) = 0

\* The ledger holds a split that its payer takes part in, then a transfer
\* to that payer by one of the others, of the amount of one share.
SplitThenTransfer ==
    /\ Len(transactions) = 2
    /\ Len(transactions[1].receivers.v) >= 2
    /\ Distinct(transactions[1].receivers.v)
    /\ InSeq(transactions[1].payer, transactions[1].receivers.v)
    /\ transactions[2].receivers.v = <<transactions[1].payer>>
    /\ transactions[2].payer # transactions[1].payer
    /\ InSeq(transactions[2].payer, transactions[1].receivers.v)
    /\ DecCmp(transactions[2].amount,
              DecDivInt(transactions[1].amount, Len(transactions[1].receivers.v))) = 0

\* The balances that calculate_balances gives for the split alone.
BeforeTransfer ==
    {BalancesOf(NetOf(SubSeq(transactions, 1, 1)), order).rounded :
        order \in Orders(NetOf(SubSeq(transactions, 1, 1)).keys, iterOrder,
                         OrderConsulted(NetOf(SubSeq(transactions, 1, 1))))}

\* C14: after a split and the transfer of one debtor's share to its payer,
\* that debtor's balance is 0.00, the other debtors' balances are what they
\* were, and the payer's balance is less by the amount transferred.
C14_TransferSettlesDebtor ==
    (Calculated /\ SplitThenTransfer) =>
        \A before \in BeforeTransfer :
            /\ IsZeroDigits(last.ret.rounded[transactions[2].payer].digits)
            /\ \A q \in DOMAIN before :
                  q \notin {transactions[1].payer, transactions[2].payer}
                      => DecCmp(last.ret.rounded[q], before[q]) = 0
            /\ DecCmp(last.ret.rounded[transactions[1].payer],
                      DecSub(before[transactions[1].payer], transactions[2].amount)) = 0

\* C18: whoever paid for nothing has a balance of 0.00 or less, and whoever
\* received nothing has a balance of 0.00 or more.
C18_SignsFollowRoles ==
    Calculated =>
        \A p \in DOMAIN last.ret.rounded :
            /\ (\A i \in 1..Len(transactions) : transactions[i].payer # p)
                  => DecCmp(last.ret.rounded[p], DecZero) <= 0
            /\ (\A i \in 1..Len(transactions) : ~InSeq(p, transactions[i].receivers.v))
                  => DecCmp(last.ret.rounded[p], DecZero) >= 0

\* C15: calculate_balances never reads a ledger that holds some of the
\* elements of a batch whose add_transactions call has not ended.
C15_ReadsSeeWholeBatches ==
    (Calculated /\ inflight # <<>>) => last.before = inflight.before


\* Half a cent.
HalfCent == Dec(0, <<5>>, -3)

\* r is a number of whole cents that is no farther from x than half a cent.
NearestCent(x, r) ==
    /\ r.exp = -2
    /\ DecCmp(Dec(0, DecSub(r, x).digits, DecSub(r, x).exp), HalfCent) <= 0

\* x lies halfway between two numbers of whole cents, of which r is one.
Tie(x, r) == DecCmp(Dec(0, DecSub(r, x).digits, DecSub(r, x).exp), HalfCent) = 0

\* The people of the ledger whose exact net is a tie below zero.
NegativeTies ==
    {p \in DOMAIN NetOf(transactions).val :
        /\ NetOf(transactions).val[p].sign = 1
        /\ Tie(NetOf(transactions).val[p], RoundedOf(NetOf(transactions))[p])}

\* C16 as stated: each exact net is rounded to the nearest cent, and a tie
\* goes to the greater of its two neighbours (-0.005 to 0.00).
C16_TiesGoUp ==
    Calculated =>
        \A p \in DOMAIN NetOf(transactions).val :
            /\ NearestCent(NetOf(transactions).val[p], RoundedOf(NetOf(transactions))[p])
            /\ Tie(NetOf(transactions).val[p], RoundedOf(NetOf(transactions))[p])
                  => DecCmp(RoundedOf(NetOf(transactions))[p],
                            NetOf(transactions).val[p]) > 0

\* C16: calculate_balances rounds each exact net to the nearest cent, and a
\* tie goes away from zero (0.005 to 0.01, -0.005 to -0.01); where no
\* residual is corrected the rounded nets are the balances returned.
C16_TiesGoAwayFromZero ==
    Calculated =>
        /\ \A p \in DOMAIN NetOf(transactions).val :
              /\ NearestCent(NetOf(transactions).val[p], RoundedOf(NetOf(transactions))[p])
              /\ Tie(NetOf(transactions).val[p], RoundedOf(NetOf(transactions))[p])
                    => RoundedOf(NetOf(transactions))[p].sign
                           = NetOf(transactions).val[p].sign
                       /\ DecCmp(Dec(0, RoundedOf(NetOf(transactions))[p].digits, -2),
                                 Dec(0, NetOf(transactions).val[p].digits,
                                     NetOf(transactions).val[p].exp)) > 0
        /\ ~AtLeastCent(ResidualOf(transactions))
              => last.ret.rounded = RoundedOf(NetOf(transactions))

\* Balances were returned for a ledger in which someone's exact net is
\* -0.005, and that person's balance is -0.01.
C16_Witness ==
    /\ Calculated
    /\ \E p \in NegativeTies :
          /\ DecCmp(NetOf(transactions).val[p], Dec(1, <<5>>, -3)) = 0
          /\ DecCmp(last.ret.rounded[p], Dec(1, <<1>>, -2)) = 0

\* The people whose returned balance is not their independently rounded net.
Changed ==
    {p \in DOMAIN last.ret.balances :
        last.ret.balances[p] # FloatOfDec(RoundedOf(NetOf(transactions))[p])}

\* p holds the greatest (dir = 1) or least (dir = -1) of the rounded nets.
HoldsExtreme(p, dir) ==
    \A q \in DOMAIN RoundedOf(NetOf(transactions)) :
        dir * DecCmp(RoundedOf(NetOf(transactions))[p],
                     RoundedOf(NetOf(transactions))[q]) >= 0

\* C17: the balances returned are the rounded nets, except that a sum R of
\* the rounded nets of 0.01 or more in magnitude is subtracted whole from one
\* person, who holds the greatest rounded net if R > 0 and the least if R < 0.
C17_OneBalanceTakesResidual ==
    Calculated =>
        /\ DOMAIN last.ret.balances = DOMAIN RoundedOf(NetOf(transactions))
        /\ ~AtLeastCent(ResidualOf(transactions)) => Changed = {}
        /\ AtLeastCent(ResidualOf(transactions)) =>
              /\ Cardinality(Changed) = 1
              /\ \A p \in Changed :
                    /\ last.ret.balances[p]
                           = FloatOfDec(DecSub(RoundedOf(NetOf(transactions))[p],
                                               ResidualOf(transactions)))
                    /\ HoldsExtreme(p, IF DecCmp(ResidualOf(transactions), DecZero) > 0
                                       THEN 1 ELSE -1)

\* Balances were returned after a residual above zero was taken from the one
\* person holding the greatest rounded net, the others holding less.
C17_Witness ==
    /\ Calculated
    /\ AtLeastCent(ResidualOf(transactions))
    /\ DecCmp(ResidualOf(transactions), DecZero) > 0
    /\ \E p \in Changed :
          /\ Changed = {p}
          /\ HoldsExtreme(p, 1)
          /\ ~HoldsExtreme(p, -1)

\* C19: submitted the same batches, the singleton calculator accepts what
\* the calculator accepts, and the balances of the two are the same mapping.
C19_CalculatorsAgree ==
    /\ last.op = "submit to both" =>
          /\ (last.exc = NoExc) <=> (last.ret.status = "success")
          /\ Len(singleton) = Len(transactions)
    /\ last.op = "calculate both" => last.ret.singleton = last.ret.balances
=============================================================================
